---- MODULE Spec2Model ----
(***************************************************************************)
(* AuthExpressStore: an express-session store on one MySQL table.          *)
(*                                                                         *)
(* The repository holds two versions of the class: the documented one      *)
(* (src/unnamed/part_000, twelve operations) and the package entry point   *)
(* src/index.js (seven operations, four of them stubs).  The variable      *)
(* `store` says which class the instance was built from.                   *)
(*                                                                         *)
(* Time is counted in ticks; TicksPerSecond ticks make one second, so a    *)
(* tick stands for the sub-second (millisecond) part of a Date.            *)
(***************************************************************************)
EXTENDS Integers, FiniteSets, Sequences, TLC

VARIABLES
    env,           \* process.env as the constructor reads it
    configOptions, \* the argument of the constructor
    settings,      \* this.settings, or the exception the constructor threw
    store,       \* "part_000" or "index": the class the instance was built from
    exists,      \* whether the sessions table exists in the database
    table,       \* the rows of the sessions table in the database
    clock,       \* wall-clock time, what Date.now() returns
    connection,  \* this.connection: the slot of the connection created last
    conns,       \* the connection object created by the invocation of each slot
    ops          \* the invocation in each slot, or Idle

vars == <<env, configOptions, settings, store, exists, table, clock, connection, conns, ops>>

----------------------------------------------------------------------------
(* Bounds *)

MaxTime == 3
MaxInFlight == 2

(* Date.parse(String(date)) keeps whole seconds only: 1000 ms collapse to
   TicksPerSecond ticks. *)
TicksPerSecond == 2

Slots == 1..MaxInFlight
Times == 0..MaxTime

----------------------------------------------------------------------------
(* JavaScript values *)

Undefined == "undefined"

(* NaN as a number that is no time. *)
NaN == -1

Date(t) == [type |-> "Date", t |-> t]
IsoString(t) == [type |-> "string", t |-> t]
Null == [type |-> "null", t |-> 0]

(* session.cookie is undefined: reading session.cookie.expires throws. *)
NoCookie == [type |-> "no cookie", t |-> 0]

SessionIDs == {"s1", "s2"}
Users == {"u1", "u2"}

(* A session as express-session hands it over: session.cookie.expires is a
   Date or null (a browser-session cookie), session.passport?.user a user or
   undefined.  SessionX is what another caller may pass: an object with no
   cookie property. *)
SessionA == [tag |-> "A", expires |-> Date(1), user |-> "u1"]
SessionB == [tag |-> "B", expires |-> Date(2), user |-> "u2"]
SessionC == [tag |-> "C", expires |-> Date(3), user |-> Undefined]
SessionN == [tag |-> "N", expires |-> Null, user |-> "u1"]
SessionX == [tag |-> "X", expires |-> NoCookie, user |-> "u1"]
Sessions == {SessionA, SessionB, SessionC, SessionN, SessionX}
NoSession == [tag |-> "-", expires |-> Null, user |-> Undefined]

(* Date.parse(x): of a Date object it parses String(date), which has no
   milliseconds; of an ISO string it is exact; of null it is NaN. *)
DateParse(v) ==
    CASE v.type = "Date" -> (v.t \div TicksPerSecond) * TicksPerSecond
      [] v.type = "string" -> v.t
      [] OTHER -> NaN

(* JSON.stringify(session): a Date becomes its ISO string (toJSON), null stays
   null, an undefined property is dropped (and so is undefined once parsed). *)
JSONStringify(session) ==
    [tag |-> session.tag,
     expires |-> IF session.expires.type = "Date"
                 THEN IsoString(session.expires.t)
                 ELSE session.expires,
     user |-> session.user]

(* JSON.parse(text): strings stay strings. *)
JSONParse(text) == text

(* new Date(ms): new Date(NaN) is an Invalid Date. *)
NewDate(ms) == IF ms = NaN THEN [type |-> "Invalid Date", t |-> 0] ELSE Date(ms)

----------------------------------------------------------------------------
(* Configuration values.  A JavaScript value is a tagged record: t is
   "undefined", "string", "number", "NaN", "Infinity", "boolean" or "object";
   s is the text of a string, n and f the integral part and the tenths of a
   number (n is 1 for true). *)

JsValue(t, s, n, f) == [t |-> t, s |-> s, n |-> n, f |-> f]
JsUndefined == JsValue("undefined", "", 0, 0)
Str(x) == JsValue("string", x, 0, 0)
Number(i, tenths) == JsValue("number", "", i, tenths)
Num(i) == Number(i, 0)
JsNaN == JsValue("NaN", "", 0, 0)
JsInfinity == JsValue("Infinity", "", 0, 0)
JsFalse == JsValue("boolean", "", 0, 0)
JsObject == JsValue("object", "", 0, 0)

(* typeof v *)
TypeOf(v) == IF v.t \in {"number", "NaN", "Infinity"} THEN "number" ELSE v.t

(* ToBoolean(v), what || tests *)
Truthy(v) ==
    CASE v.t = "string" -> v.s # ""
      [] v.t = "number" -> v.n # 0 \/ v.f # 0
      [] v.t = "boolean" -> v.n = 1
      [] v.t \in {"Infinity", "object"} -> TRUE
      [] OTHER -> FALSE

(* a || b *)
OrElse(a, b) == IF Truthy(a) THEN a ELSE b

(* parseInt(v, 10): of a string its leading integer or NaN, of a number the
   integer its decimal text starts with, of Infinity and of anything else
   NaN. *)
ParseInt(v) ==
    CASE v.t = "string" ->
            (CASE v.s = "3307" -> Num(3307)
               [] v.s = "3308" -> Num(3308)
               [] v.s = "0" -> Num(0)
               [] OTHER -> JsNaN)
      [] v.t = "number" -> Num(v.n)
      [] OTHER -> JsNaN

IsInteger(v) == v.t = "number" /\ v.f = 0

----------------------------------------------------------------------------
(* The database: one table, rows [sessionID, data, expires, user] *)

NoError == "none"

Row(id, data, expires, user) ==
    [sessionID |-> id, data |-> data, expires |-> expires, user |-> user]

(* What a statement answers: the table afterwards, the error, the selected
   rows and the COUNT value. *)
Answer(t, error, rows, len) ==
    [table |-> t, error |-> error, rows |-> rows, len |-> len]

(* WHERE ?? >= ? and WHERE ?? < ? on the expires column *)
Unexpired(t, now) == {r \in t : r.expires >= now}
Expired(t, now) == {r \in t : r.expires < now}

(* INSERT IGNORE INTO ?? (id, data, expires, user) VALUES (?, ?, ?, ?).
   A NaN parameter is written into the statement as the bare word NaN, which
   the server rejects (unknown column).  A duplicate key is skipped without an
   error.  undefined is sent as NULL, which IGNORE turns into the column's
   implicit default '' for the NOT NULL user column. *)
InsertIgnore(t, id, data, expires, user) ==
    IF expires = NaN THEN Answer(t, "ER_BAD_FIELD_ERROR", {}, 0)
    ELSE IF \E r \in t : r.sessionID = id THEN Answer(t, NoError, {}, 0)
    ELSE Answer(t \cup {Row(id, data, expires, IF user = Undefined THEN "" ELSE user)},
                NoError, {}, 0)

(* INSERT INTO ?? (...) VALUES (?, ?, null, ?) ON DUPLICATE KEY UPDATE ...:
   index.js passes timeExpires = null for the NOT NULL expires column, which
   a single-row INSERT without IGNORE rejects before it looks at the key. *)
InsertNullExpires(t, id, data, user) == Answer(t, "ER_BAD_NULL_ERROR", {}, 0)

(* UPDATE ?? SET data = ?, expires = ? WHERE sessionID = ? *)
Update(t, id, data, expires) ==
    IF expires = NaN THEN Answer(t, "ER_BAD_FIELD_ERROR", {}, 0)
    ELSE Answer({IF r.sessionID = id
                 THEN Row(id, data, expires, r.user)
                 ELSE r : r \in t},
                NoError, {}, 0)

(* A DELETE whose WHERE clause is lost: every row goes. *)
DeleteSessionNoWhere(t, id) == Answer({}, NoError, {}, 0)

(* DELETE FROM ?? WHERE sessionID = ? *)
DeleteSession(t, id) == Answer({r \in t : r.sessionID # id}, NoError, {}, 0)

(* A DELETE that compares the wrong column with the user. *)
DeleteUserBySessionID(t, user) ==
    Answer({r \in t : r.sessionID # user}, NoError, {}, 0)

(* DELETE FROM ?? WHERE user = ? *)
DeleteUser(t, user) == Answer({r \in t : r.user # user}, NoError, {}, 0)

(* A DELETE whose comparison also takes the rows expiring right now. *)
DeleteExpiredInclusive(t, now) ==
    Answer({r \in t : r.expires > now}, NoError, {}, 0)

(* DELETE FROM ?? WHERE expires < ? *)
DeleteExpired(t, now) == Answer(Unexpired(t, now), NoError, {}, 0)

(* TRUNCATE ?? *)
Truncate(t) == Answer({}, NoError, {}, 0)

(* SELECT * FROM ?? WHERE expires >= ? / < ? *)
SelectUnexpired(t, now) == Answer(t, NoError, Unexpired(t, now), 0)
SelectExpired(t, now) == Answer(t, NoError, Expired(t, now), 0)

(* SELECT COUNT AS LEN FROM ?? WHERE expires >= ? / < ? *)
CountUnexpired(t, now) == Answer(t, NoError, {}, Cardinality(Unexpired(t, now)))
CountExpired(t, now) == Answer(t, NoError, {}, Cardinality(Expired(t, now)))

(* A read that evicts: the row of the ID is deleted when it is found
   expired. *)
SelectSessionEvicting(t, id, now) ==
    Answer({r \in t : ~(r.sessionID = id /\ r.expires < now)}, NoError,
           {r \in t : r.sessionID = id /\ r.expires >= now}, 0)

(* SELECT data FROM ?? WHERE sessionID = ? AND expires >= ? *)
SelectSession(t, id, now) ==
    Answer(t, NoError, {r \in t : r.sessionID = id /\ r.expires >= now}, 0)

(* SELECT data FROM ?? WHERE sessionID = ? (index.js: no expiry filter) *)
SelectSessionAnyAge(t, id) ==
    Answer(t, NoError, {r \in t : r.sessionID = id}, 0)

(* The answer to any statement about a table that does not exist. *)
NoSuchTable(t) == Answer(t, "ER_NO_SUCH_TABLE", {}, 0)

(* CREATE TABLE without IF NOT EXISTS: an existing table is an error. *)
CreateTableStrict(t) ==
    IF exists THEN Answer(t, "ER_TABLE_EXISTS_ERROR", {}, 0)
    ELSE Answer(t, NoError, {}, 0)

(* CREATE TABLE IF NOT EXISTS: an absent table is created empty, an existing
   one is left as it is (a warning, no error). *)
CreateIfAbsent(t) == Answer(t, NoError, {}, 0)

----------------------------------------------------------------------------
(* Invocations *)

NoData == [kind |-> "undefined", session |-> NoSession, count |-> 0, rows |-> {}]
SessionData(x) == [kind |-> "session", session |-> x, count |-> 0, rows |-> {}]
CountData(n) == [kind |-> "count", session |-> NoSession, count |-> n, rows |-> {}]
RowsData(rows) == [kind |-> "rows", session |-> NoSession, count |-> 0, rows |-> rows]

NoAnswer == [error |-> NoError, rows |-> {}, len |-> 0]

(* The arguments of one call of a store method; callback says whether the
   last argument is a function. *)
Invocation(op, id, session, user) ==
    [op |-> op, sessionID |-> id, session |-> session, user |-> user,
     callback |-> TRUE]

(* The same call with no continuation. *)
WithoutCallback(inv) == [inv EXCEPT !.callback = FALSE]

(* A slot: the invocation, the Date.now() it read, how far it got
   ("connecting", "sent", "answered", "done"), whether the table existed and
   which rows it held when the statement found it, the database's answer and
   what the continuation received. *)
IdleOp ==
    [op |-> "idle", sessionID |-> "-", session |-> NoSession, user |-> "-",
     callback |-> TRUE,
     now |-> 0, phase |-> "idle", existed |-> FALSE, before |-> {},
     answer |-> NoAnswer,
     error |-> NoError, data |-> NoData]

Started(inv, now, phase) ==
    [op |-> inv.op, sessionID |-> inv.sessionID, session |-> inv.session,
     user |-> inv.user, callback |-> inv.callback, now |-> now, phase |-> phase, existed |-> FALSE,
     before |-> {}, answer |-> NoAnswer, error |-> NoError, data |-> NoData]

(* What a query-completion handler hands to finalCallback. *)
Cb(error, data) == [error |-> error, data |-> data]

----------------------------------------------------------------------------
(* src/unnamed/part_000: the statement of each operation and its handler *)

allSql(o, t) == SelectUnexpired(t, o.now)
allHandler(o) ==
    IF o.answer.error # NoError THEN Cb(o.answer.error, NoData)
    ELSE Cb(NoError, RowsData(o.answer.rows))

clearSql(o, t) == Truncate(t)
clearHandler(o) ==
    IF o.answer.error # NoError THEN Cb(o.answer.error, NoData)
    ELSE Cb(NoError, NoData)

destroySql(o, t) == DeleteSession(t, o.sessionID)
destroyHandler(o) == Cb(o.answer.error, NoData)

getSql(o, t) == SelectSession(t, o.sessionID, o.now)
(* A callback whose error branch completes without passing the error on. *)
getHandlerDropsError(o) == Cb(NoError, NoData)

getHandler(o) ==
    IF o.answer.error # NoError THEN Cb(o.answer.error, NoData)
    ELSE IF Cardinality(o.answer.rows) = 1
    THEN LET row == CHOOSE r \in o.answer.rows : TRUE
             sessionData == JSONParse(row.data)
         IN Cb(NoError,
               SessionData([sessionData EXCEPT
                   !.expires = NewDate(DateParse(sessionData.expires))]))
    ELSE Cb(NoError, NoData)

lengthSql(o, t) == CountUnexpired(t, o.now)
lengthHandler(o) ==
    IF o.answer.error # NoError THEN Cb(o.answer.error, NoData)
    ELSE Cb(NoError, CountData(o.answer.len))

setSql(o, t) ==
    InsertIgnore(t, o.sessionID, JSONStringify(o.session),
                 DateParse(o.session.expires), o.session.user)
(* A callback that logs the error and then completes as if there were none. *)
setHandlerSwallowsError(o) == Cb(NoError, NoData)

setHandler(o) == Cb(o.answer.error, NoData)

touchSql(o, t) ==
    Update(t, o.sessionID, JSONStringify(o.session), DateParse(o.session.expires))
touchHandler(o) == Cb(o.answer.error, NoData)

expiredSql(o, t) == SelectExpired(t, o.now)
expiredHandler(o) ==
    IF o.answer.error # NoError THEN Cb(o.answer.error, NoData)
    ELSE Cb(NoError, RowsData(o.answer.rows))

expiredLengthSql(o, t) == CountExpired(t, o.now)
expiredLengthHandler(o) ==
    IF o.answer.error # NoError THEN Cb(o.answer.error, NoData)
    ELSE Cb(NoError, CountData(o.answer.len))

expiredClearSql(o, t) == DeleteExpired(t, o.now)
expiredClearHandler(o) ==
    IF o.answer.error # NoError THEN Cb(o.answer.error, NoData)
    ELSE Cb(NoError, NoData)

destroyUserSql(o, t) == DeleteUser(t, o.user)
destroyUserHandler(o) ==
    IF o.answer.error # NoError THEN Cb(o.answer.error, NoData)
    ELSE Cb(NoError, NoData)

createTableSql(o, t) == CreateIfAbsent(t)
createTableHandler(o) ==
    IF o.answer.error # NoError THEN Cb(o.answer.error, NoData)
    ELSE Cb(NoError, NoData)

----------------------------------------------------------------------------
(* src/index.js: destroy, get and set go to the database; all, clear, length
   and touch only `return callback()` *)

indexDestroySql(o, t) == DeleteSession(t, o.sessionID)
indexDestroyHandler(o) == Cb(o.answer.error, NoData)

indexGetSql(o, t) == SelectSessionAnyAge(t, o.sessionID)
indexGetHandler(o) ==
    IF o.answer.error # NoError THEN Cb(o.answer.error, NoData)
    ELSE IF Cardinality(o.answer.rows) = 1
    THEN LET row == CHOOSE r \in o.answer.rows : TRUE
         IN Cb(NoError, SessionData(JSONParse(row.data)))
    ELSE Cb(NoError, NoData)

indexSetSql(o, t) ==
    InsertNullExpires(t, o.sessionID, JSONStringify(o.session), o.session.user)
indexSetHandler(o) == Cb(o.answer.error, NoData)

IndexStubs == {"all", "clear", "length", "touch"}
indexStub(o) == Cb(NoError, NoData)

----------------------------------------------------------------------------
(* Exceptions *)

(* set and touch of part_000 read session.cookie.expires before anything
   else: a TypeError in the caller when session.cookie is undefined.
   index.js reads only session.passport?.user.  The stubs of index.js call
   their argument as it is: a TypeError when it is not a function. *)
ThrowsInCaller(st, inv) ==
    \/ /\ st = "part_000"
       /\ inv.op \in {"set", "touch"}
       /\ inv.session.expires = NoCookie
    \/ /\ st = "index"
       /\ inv.op \in IndexStubs
       /\ ~inv.callback

(* The query callback of get reads the data of the row it found from the
   property DATA, whatever the data column is called: with another column
   name the property is undefined and JSON.parse throws a SyntaxError.  The
   callback of part_000 then assigns sessionData.cookie.expires: a TypeError
   when the stored data has no cookie.  Nothing catches either, and
   finalCallback is not reached. *)
ExceptionInHandler(st, o) ==
    IF o.op = "get" /\ o.answer.error = NoError /\ Cardinality(o.answer.rows) = 1
    THEN IF settings.values["columnNames.data"] # Str("DATA")
         THEN "SyntaxError"
         ELSE IF st = "part_000"
                 /\ \E r \in o.answer.rows : r.data.expires = NoCookie
         THEN "TypeError"
         ELSE NoError
    ELSE NoError

ThrowsInHandler(st, o) == ExceptionInHandler(st, o) # NoError

----------------------------------------------------------------------------
(* Dispatch on the class and the method *)

Part000Ops ==
    {"all", "clear", "destroy", "get", "length", "set", "touch", "expired",
     "expiredLength", "expiredClear", "destroyUser", "createTable"}
IndexOps == {"all", "clear", "destroy", "get", "length", "set", "touch"}

OpsOf(st) == IF st = "part_000" THEN Part000Ops ELSE IndexOps

IsStub(st, op) == st = "index" /\ op \in IndexStubs

Sql(st, o, t) ==
    IF st = "index"
    THEN CASE o.op = "destroy" -> indexDestroySql(o, t)
           [] o.op = "get" -> indexGetSql(o, t)
           [] o.op = "set" -> indexSetSql(o, t)
    ELSE CASE o.op = "all" -> allSql(o, t)
           [] o.op = "clear" -> clearSql(o, t)
           [] o.op = "destroy" -> destroySql(o, t)
           [] o.op = "get" -> getSql(o, t)
           [] o.op = "length" -> lengthSql(o, t)
           [] o.op = "set" -> setSql(o, t)
           [] o.op = "touch" -> touchSql(o, t)
           [] o.op = "expired" -> expiredSql(o, t)
           [] o.op = "expiredLength" -> expiredLengthSql(o, t)
           [] o.op = "expiredClear" -> expiredClearSql(o, t)
           [] o.op = "destroyUser" -> destroyUserSql(o, t)
           [] o.op = "createTable" -> createTableSql(o, t)

Handler(st, o) ==
    IF st = "index"
    THEN CASE o.op = "destroy" -> indexDestroyHandler(o)
           [] o.op = "get" -> indexGetHandler(o)
           [] o.op = "set" -> indexSetHandler(o)
    ELSE CASE o.op = "all" -> allHandler(o)
           [] o.op = "clear" -> clearHandler(o)
           [] o.op = "destroy" -> destroyHandler(o)
           [] o.op = "get" -> getHandler(o)
           [] o.op = "length" -> lengthHandler(o)
           [] o.op = "set" -> setHandler(o)
           [] o.op = "touch" -> touchHandler(o)
           [] o.op = "expired" -> expiredHandler(o)
           [] o.op = "expiredLength" -> expiredLengthHandler(o)
           [] o.op = "expiredClear" -> expiredClearHandler(o)
           [] o.op = "destroyUser" -> destroyUserHandler(o)
           [] o.op = "createTable" -> createTableHandler(o)

(* Every call a caller can make on a store of class st. *)
Invocations(st, ids, sessions, users) ==
    {inv \in
        {Invocation(op, "-", NoSession, "-") :
            op \in {"all", "clear", "length", "expired", "expiredLength",
                    "expiredClear", "createTable"}}
        \cup {Invocation(op, id, NoSession, "-") :
            op \in {"destroy", "get"}, id \in ids}
        \cup {Invocation(op, id, session, "-") :
            op \in {"set", "touch"}, id \in ids, session \in sessions}
        \cup {Invocation("destroyUser", "-", NoSession, u) : u \in users}
     : inv.op \in OpsOf(st)}

----------------------------------------------------------------------------
(* Connections.  A connection object is "created" (createConnection and
   connect called, the socket not yet up), "authenticated", "ended" (the
   connect failed) or "destroyed"; "none" is a slot that never had one. *)

NoConnection == 0

(* connection.state as the mysql client reports it: 'disconnected' until the
   socket is up, and again after destroy(). *)
StateOf(c) ==
    CASE c = "created" -> "disconnected"
      [] c = "ended" -> "disconnected"
      [] c = "destroyed" -> "disconnected"
      [] OTHER -> c

IsOpen(c) == c \in {"created", "authenticated"}

(* connectToDatabase(): this.connection = mysql.createConnection(...);
   this.connection.connect(...) *)
connectToDatabase(cs, s) == [cs EXCEPT ![s] = "created"]

(* A close that does nothing. *)
closeDatabaseConnectionSkipped(cs, c) == cs

(* closeDatabaseConnection(): destroys whatever this.connection refers to now,
   unless its state reads 'disconnected'. *)
closeDatabaseConnection(cs, c) ==
    IF StateOf(cs[c]) # "disconnected" THEN [cs EXCEPT ![c] = "destroyed"] ELSE cs

(* A slot a new invocation can take: no invocation in it and no connection of
   an earlier invocation still open in it.  The lowest such slot is taken. *)
FreeSlots == {s \in Slots : ops[s].op = "idle" /\ ~IsOpen(conns[s])}
InFlight == {s \in Slots : ops[s].op # "idle" /\ ops[s].phase # "done"}

----------------------------------------------------------------------------
(* Steps *)

(* The synchronous part of a method: read Date.now(), build the parameters,
   connectToDatabase(), connection.query(sql, params, handler).  The stubs of
   index.js call the continuation at once and touch no connection.  A method
   that throws while it builds its parameters leaves the caller with the
   exception ("thrown") before any connection is made. *)
Call(s, inv) ==
    /\ s \in FreeSlots
    /\ \A z \in FreeSlots : s <= z
    /\ IF ThrowsInCaller(store, inv)
       THEN /\ ops' = [ops EXCEPT ![s] =
                        [Started(inv, clock, "thrown") EXCEPT
                            !.error = "TypeError"]]
            /\ UNCHANGED <<connection, conns>>
       ELSE IF IsStub(store, inv.op)
       THEN /\ ops' = [ops EXCEPT ![s] =
                        [Started(inv, clock, "done") EXCEPT
                            !.existed = exists,
                            !.before = table,
                            !.error = indexStub(inv).error,
                            !.data = indexStub(inv).data]]
            /\ UNCHANGED <<connection, conns>>
       ELSE /\ ops' = [ops EXCEPT ![s] = Started(inv, clock, "connecting")]
            /\ connection' = s
            /\ conns' = connectToDatabase(conns, s)
    /\ UNCHANGED <<env, configOptions, settings, store, exists, table, clock>>

(* An invocation made when no other is in flight and every earlier
   continuation has returned. *)
Invoke ==
    /\ \A s \in Slots : ops[s].op = "idle"
    /\ \E inv \in Invocations(store, SessionIDs, Sessions, Users) :
          Call(1, inv) \/ Call(1, WithoutCallback(inv))

(* The socket is up and the handshake done: the queued query goes out. *)
ConnectOk(s) ==
    /\ ops[s].phase = "connecting"
    /\ conns[s] = "created"
    /\ conns' = [conns EXCEPT ![s] = "authenticated"]
    /\ ops' = [ops EXCEPT ![s].phase = "sent"]
    /\ UNCHANGED <<env, configOptions, settings, store, exists, table, clock, connection>>

(* The database executes the statement (or reports a failure of its own, or
   that the table does not exist).
   A statement already on the wire is executed even if the client has since
   destroyed the connection; its answer then reaches nobody. *)
DbExecute(s) ==
    /\ ops[s].phase = "sent"
    /\ \E fails \in BOOLEAN :
        LET creates == ops[s].op = "createTable"
            a == IF fails THEN Answer(table, "QueryError", {}, 0)
                 ELSE IF ~exists /\ ~creates THEN NoSuchTable(table)
                 ELSE Sql(store, ops[s], table)
        IN /\ table' = a.table
           /\ exists' = (exists \/ (creates /\ a.error = NoError))
           /\ ops' = [ops EXCEPT ![s].phase = "answered",
                                 ![s].existed = exists,
                                 ![s].before = table,
                                 ![s].answer = [error |-> a.error,
                                                rows |-> a.rows,
                                                len |-> a.len]]
    /\ UNCHANGED <<env, configOptions, settings, store, clock, connection, conns>>

(* finalCallback(callback, error, data): closeDatabaseConnection(), then the
   continuation, or an empty function in its place when none was given.  cs is the state of the connection objects when it runs. *)
finalCallback(cs, s, cb) ==
    /\ conns' = closeDatabaseConnection(cs, connection)
    /\ ops' = [ops EXCEPT ![s].phase = "done",
                          ![s].answer = NoAnswer,
                          ![s].error = cb.error,
                          ![s].data = cb.data]

(* The connect fails.  The client ends the connection (its state reads
   'disconnected' again), calls the connect callback, which only logs (lines
   188-194), and on the next tick fails the queued query with the same fatal
   error: the query-completion handler runs before any other I/O callback. *)
ConnectFail(s) ==
    /\ ops[s].phase = "connecting"
    /\ conns[s] = "created"
    /\ finalCallback([conns EXCEPT ![s] = "ended"], s,
                     Handler(store, [ops[s] EXCEPT !.answer.error = "ConnectionError"]))
    /\ UNCHANGED <<env, configOptions, settings, store, exists, table, clock, connection>>

(* The query-completion handler, which the client calls only while the
   connection of the query is not destroyed. *)
Complete(s) ==
    /\ ops[s].phase = "answered"
    /\ conns[s] # "destroyed"
    /\ ~ThrowsInHandler(store, ops[s])
    /\ finalCallback(conns, s, Handler(store, ops[s]))
    /\ UNCHANGED <<env, configOptions, settings, store, exists, table, clock, connection>>

(* The query-completion handler throws: the exception is uncaught in the
   event loop ("crashed"), the connection is not closed and the continuation
   is not called. *)
HandlerThrows(s) ==
    /\ ops[s].phase = "answered"
    /\ conns[s] # "destroyed"
    /\ ThrowsInHandler(store, ops[s])
    /\ ops' = [ops EXCEPT ![s].phase = "crashed",
                          ![s].answer = NoAnswer,
                          ![s].error = ExceptionInHandler(store, ops[s])]
    /\ UNCHANGED <<env, configOptions, settings, store, exists, table, clock, connection, conns>>

(* The caller is left with the exception a method threw. *)
Unwind(s) ==
    /\ ops[s].phase = "thrown"
    /\ ops' = [ops EXCEPT ![s] = IdleOp]
    /\ UNCHANGED <<env, configOptions, settings, store, exists, table, clock, connection, conns>>

(* The continuation returns. *)
Return(s) ==
    /\ ops[s].phase = "done"
    /\ ops' = [ops EXCEPT ![s] = IdleOp]
    /\ UNCHANGED <<env, configOptions, settings, store, exists, table, clock, connection, conns>>

(* Time passes. *)
Tick ==
    /\ clock < MaxTime
    /\ clock' = clock + 1
    /\ UNCHANGED <<env, configOptions, settings, store, exists, table, connection, conns, ops>>

----------------------------------------------------------------------------
(* Construction *)

DatabaseFields == {"host", "port", "user", "password", "database"}
ColumnFields ==
    {"columnNames.sessionID", "columnNames.expires", "columnNames.data",
     "columnNames.user"}
SchemaFields == {"tableName"} \cup ColumnFields
Fields == DatabaseFields \cup SchemaFields

(* The environment variable the constructor reads for a database field. *)
EnvVarOf ==
    [f \in DatabaseFields |->
        CASE f = "host" -> "HOST"
          [] f = "port" -> "DATABASE_PORT"
          [] f = "user" -> "DATABASE_USER"
          [] f = "password" -> "DATABASE_PASSWORD"
          [] f = "database" -> "DATABASE_NAME"]
EnvVars == {EnvVarOf[f] : f \in DatabaseFields}

(* databaseDefaults, schemaDefaults and the column literals of the
   constructor *)
Defaults ==
    [f \in Fields |->
        CASE f = "host" -> Str("localhost")
          [] f = "port" -> Num(3306)
          [] f = "user" -> Str("auth_express_mysql_test_user")
          [] f = "password" -> Str("password123456")
          [] f = "database" -> Str("auth_express_mysql_testing")
          [] f = "tableName" -> Str("SESSIONS")
          [] f = "columnNames.sessionID" -> Str("SESSION_ID")
          [] f = "columnNames.expires" -> Str("EXPIRES")
          [] f = "columnNames.data" -> Str("DATA")
          [] f = "columnNames.user" -> Str("USER")]

NoEnv == [v \in EnvVars |-> JsUndefined]
NoOptions == [f \in Fields |-> JsUndefined]

(* this.settings as the constructor assigns it, before any check. *)
Resolved(e, o) ==
    [f \in Fields |->
        IF f = "port"
        THEN OrElse(OrElse(ParseInt(e["DATABASE_PORT"]), o[f]), Defaults[f])
        ELSE IF f \in DatabaseFields
        THEN OrElse(OrElse(e[EnvVarOf[f]], o[f]), Defaults[f])
        ELSE OrElse(o[f], Defaults[f])]

(* The order in which sanitizeConfiguration checks the fields. *)
CheckOrder ==
    <<"host", "port", "user", "password", "database", "tableName",
      "columnNames.sessionID", "columnNames.expires", "columnNames.data",
      "columnNames.user">>

Unbuilt ==
    [status |-> "unbuilt", field |-> "none", received |-> "none",
     values |-> Defaults]

(* sanitizeConfiguration(): the first field of the wrong type throws, with
   the field and the typeof the message reports (the tableName message reads
   typeof this.tableName, a property that does not exist); otherwise the port
   is replaced by parseInt(port, 10). *)
sanitizeConfiguration(raw) ==
    LET Bad(i) == IF CheckOrder[i] = "port"
                  THEN TypeOf(raw[CheckOrder[i]]) # "number"
                  ELSE TypeOf(raw[CheckOrder[i]]) # "string"
        bad == {i \in 1..Len(CheckOrder) : Bad(i)}
    IN IF bad # {}
       THEN LET i == CHOOSE k \in bad : \A j \in bad : k <= j
            IN [status |-> "threw",
                field |-> CheckOrder[i],
                received |-> IF CheckOrder[i] = "tableName" THEN "undefined"
                             ELSE TypeOf(raw[CheckOrder[i]]),
                values |-> raw]
       ELSE [status |-> "built", field |-> "none", received |-> "none",
             values |-> [raw EXCEPT !["port"] = ParseInt(raw["port"])]]

(* new AuthExpressStore(configOptions) *)
constructor(e, o) == sanitizeConfiguration(Resolved(e, o))

(* The values tried for a field: for an environment variable (a string when
   set), for a string option and for the port option. *)
EnvStringValues == {JsUndefined, Str(""), Str("env.example")}
EnvPortValues == {JsUndefined, Str(""), Str("3307"), Str("0"), Str("abc")}
OptionStringValues ==
    {JsUndefined, Str(""), Str("opt.example"), Num(0), Num(7), JsFalse, JsObject}
OptionPortValues ==
    {JsUndefined, Num(3308), Number(3308, 5), Num(0), Str("3308"), Str("abc"),
     JsInfinity}

EnvValues(f) ==
    IF f = "port" THEN EnvPortValues
    ELSE IF f \in DatabaseFields THEN EnvStringValues
    ELSE {JsUndefined}
OptionValues(f) == IF f = "port" THEN OptionPortValues ELSE OptionStringValues

(* The constructor runs. *)
Construct ==
    /\ settings.status = "unbuilt"
    /\ settings' = constructor(env, configOptions)
    /\ UNCHANGED <<env, configOptions, store, exists, table, clock, connection,
                   conns, ops>>

----------------------------------------------------------------------------
(* Specifications *)

(* The row set(id, session) of part_000 leaves in an empty table. *)
StoredRow(id, session) ==
    Row(id, JSONStringify(session), DateParse(session.expires),
        IF session.user = Undefined THEN "" ELSE session.user)

(* The table outlives the process.  A part_000 store starts on an empty table
   or on none (createTable makes it) and fills it by itself; the table may
   also hold a row of foreign make.  index.js cannot (its INSERT is rejected), so an
   index store starts on an empty table or on one that holds a session stored
   earlier under the same schema. *)
(* A row some other program left in the table: data with no cookie in it. *)
ForeignRow ==
    Row("s2", [tag |-> "F", expires |-> NoCookie, user |-> Undefined], MaxTime, "")

InitTables ==
    {{}} \cup {{StoredRow(id, session)} :
                id \in SessionIDs, session \in {SessionA, SessionB}}

Init ==
    /\ env = NoEnv
    /\ configOptions = NoOptions
    /\ settings = constructor(env, configOptions)
    /\ store \in {"part_000", "index"}
    /\ exists \in IF store = "index" THEN {TRUE} ELSE BOOLEAN
    /\ table \in IF store = "index" THEN InitTables
                 ELSE IF exists THEN {{}, {ForeignRow}} ELSE {{}}
    /\ clock = 0
    /\ connection = NoConnection
    /\ conns = [s \in Slots |-> "none"]
    /\ ops = [s \in Slots |-> IdleOp]

Next ==
    \/ Invoke
    \/ \E s \in Slots : ConnectOk(s)
    \/ \E s \in Slots : ConnectFail(s)
    \/ \E s \in Slots : DbExecute(s)
    \/ \E s \in Slots : Complete(s)
    \/ \E s \in Slots : HandlerThrows(s)
    \/ \E s \in Slots : Return(s)
    \/ \E s \in Slots : Unwind(s)
    \/ Tick

Spec == Init /\ [][Next]_vars


(* Invocations that overlap: a call is made while others are in flight. *)
OverlapOps == {"get", "set", "touch", "destroy"}

InvokeOverlapping ==
    \E inv \in Invocations(store, {"s1"}, {SessionA, SessionB}, {"u1"}) :
        /\ inv.op \in OverlapOps
        /\ \E s \in Slots : Call(s, inv)

NextOverlap ==
    \/ InvokeOverlapping
    \/ \E s \in Slots : ConnectOk(s)
    \/ \E s \in Slots : ConnectFail(s)
    \/ \E s \in Slots : DbExecute(s)
    \/ \E s \in Slots : Complete(s)
    \/ \E s \in Slots : Return(s)

OverlapSpec == Init /\ [][NextOverlap]_vars

(* The steps an invocation takes by itself once called: the event loop runs
   every ready callback and the database answers every statement it received,
   so each of them is taken if it stays possible. *)
Proceed(s) == ConnectOk(s) \/ ConnectFail(s) \/ DbExecute(s) \/ Complete(s)

FairOverlapSpec == OverlapSpec /\ \A s \in Slots : WF_vars(Proceed(s))

(* Construction alone: the environment and the options give one field a
   value (or none), and the constructor runs. *)
ConfigInit ==
    /\ \E f \in Fields :
        \E e \in EnvValues(f), o \in OptionValues(f) :
            /\ env = IF f \in DatabaseFields
                     THEN [NoEnv EXCEPT ![EnvVarOf[f]] = e] ELSE NoEnv
            /\ configOptions = [NoOptions EXCEPT ![f] = o]
    /\ settings = Unbuilt
    /\ store = "part_000"
    /\ exists = TRUE
    /\ table = {}
    /\ clock = 0
    /\ connection = NoConnection
    /\ conns = [s \in Slots |-> "none"]
    /\ ops = [s \in Slots |-> IdleOp]

ConfigNext == Construct

ConfigSpec == ConfigInit /\ [][ConfigNext]_vars

(* closeDatabaseConnection() called from outside, between operations.  With
   no connection ever opened this.connection is undefined and reading its
   state throws a TypeError; otherwise it is the close finalCallback makes. *)
CloseDirectly ==
    /\ \A s \in Slots : ops[s].op = "idle"
    /\ 1 \in FreeSlots
    /\ LET inv == Invocation("closeDatabaseConnection", "-", NoSession, "-")
       IN IF connection = NoConnection
          THEN /\ ops' = [ops EXCEPT ![1] =
                            [Started(inv, clock, "thrown") EXCEPT
                                !.error = "TypeError"]]
               /\ UNCHANGED conns
          ELSE /\ ops' = [ops EXCEPT ![1] = Started(inv, clock, "done")]
               /\ conns' = closeDatabaseConnection(conns, connection)
    /\ UNCHANGED <<env, configOptions, settings, store, exists, table, clock,
                   connection>>

(* A few operations, one at a time, to have connections to close. *)
InvokeBeforeClose ==
    /\ \A s \in Slots : ops[s].op = "idle"
    /\ \E inv \in Invocations(store, {"s1"}, {SessionA}, {"u1"}) :
        /\ inv.op \in {"get", "set", "destroy"}
        /\ Call(1, inv)

NextClose ==
    \/ InvokeBeforeClose
    \/ CloseDirectly
    \/ \E s \in Slots : ConnectOk(s)
    \/ \E s \in Slots : ConnectFail(s)
    \/ \E s \in Slots : DbExecute(s)
    \/ \E s \in Slots : Complete(s)
    \/ \E s \in Slots : Return(s)
    \/ \E s \in Slots : Unwind(s)

CloseSpec == Init /\ [][NextClose]_vars

(* A store constructed with names of its own for the table and the data
   column, on a table of that schema holding nothing of foreign make; it is
   used through set and get, one call at a time, while time passes. *)
OwnNames ==
    [NoOptions EXCEPT !["tableName"] = Str("MY_SESSIONS"),
                      !["columnNames.data"] = Str("PAYLOAD")]

NamedInit ==
    /\ env = NoEnv
    /\ configOptions \in {NoOptions, OwnNames}
    /\ settings = constructor(env, configOptions)
    /\ store \in {"part_000", "index"}
    /\ exists = TRUE
    /\ table \in IF store = "index" THEN InitTables ELSE {{}}
    /\ clock = 0
    /\ connection = NoConnection
    /\ conns = [s \in Slots |-> "none"]
    /\ ops = [s \in Slots |-> IdleOp]

InvokeNamed ==
    /\ \A s \in Slots : ops[s].op = "idle"
    /\ \E inv \in Invocations(store, SessionIDs, {SessionA, SessionB}, {"u1"}) :
        /\ inv.op \in {"get", "set"}
        /\ Call(1, inv)

NextNamed ==
    \/ InvokeNamed
    \/ \E s \in Slots : ConnectOk(s)
    \/ \E s \in Slots : ConnectFail(s)
    \/ \E s \in Slots : DbExecute(s)
    \/ \E s \in Slots : Complete(s)
    \/ \E s \in Slots : HandlerThrows(s)
    \/ \E s \in Slots : Return(s)
    \/ Tick

NamedSpec == NamedInit /\ [][NextNamed]_vars

----------------------------------------------------------------------------
(* Claims *)

(* C1: the connection an invocation opened is closed once its query has
   completed and its continuation runs; so whenever no operation is in flight
   no connection the store opened is still open.  This also has to hold when
   invocations overlap. *)
C1_NoConnectionLeftOpen ==
    store = "part_000" =>
        /\ \A s \in Slots : ops[s].phase = "done" => ~IsOpen(conns[s])
        /\ InFlight = {} => \A s \in Slots : ~IsOpen(conns[s])

(* C2: every invocation eventually has its continuation invoked, also when
   several are in flight: as long as no connect has failed, an invocation that
   has not reached its continuation always has a step of its own left to take
   (so that, the event loop and the database being fair, it gets there). *)
C2_EveryInvocationCanComplete ==
    (store = "part_000" /\ \A z \in Slots : conns[z] # "ended")
        => \A s \in InFlight : ENABLED Proceed(s)

(* The same as a liveness property of the fair specification. *)
EveryInvocationCompletes ==
    \A s \in Slots : (ops[s].phase = "connecting") ~> (ops[s].phase = "done")

(* Failures that come from outside the store: the database reporting a
   failure of its own, the connect failing, the table not having been
   created. *)
EnvFault(e) == e \in {"QueryError", "ConnectionError", "ER_NO_SUCH_TABLE"}

(* The continuation of the invocation in slot s has run, and no outside
   failure was reported to it. *)
Done(s, op) ==
    /\ ops[s].op = op
    /\ ops[s].phase = "done"
    /\ ~EnvFault(ops[s].error)

HasRow(t, id) == \E r \in t : r.sessionID = id

(* C3: set is an insert that ignores conflicts.  When set(id, B) has
   completed, it has done so with no error; if a row for id existed, the
   table is as it was; if none existed, a row for id with B's serialized data
   is stored (so that a second set leaves the first payload in place). *)
C3_SetIgnoresConflicts ==
    \A s \in Slots :
        Done(s, "set") =>
            /\ ops[s].error = NoError
            /\ IF HasRow(ops[s].before, ops[s].sessionID)
               THEN table = ops[s].before
               ELSE \E r \in table :
                        /\ r.sessionID = ops[s].sessionID
                        /\ r.data = JSONStringify(ops[s].session)

(* C4: round trip.  On the documented class: when get(id) runs at a time not
   later than the expires of the payload that the row of id was stored from,
   it delivers that payload and no error. *)
C4_RoundTrip ==
    \A s \in Slots : \A session \in Sessions :
        ( /\ store = "part_000"
          /\ Done(s, "get")
          /\ session.expires.type = "Date"
          /\ ops[s].now <= session.expires.t
          /\ \E r \in ops[s].before :
                r.sessionID = ops[s].sessionID /\ r.data = JSONStringify(session) )
        => /\ ops[s].error = NoError
           /\ ops[s].data = SessionData(session)

(* C5: touch overwrites.  On the documented class: when touch(id, B) has
   completed on an id that had a row, that row holds B's serialized data and
   B's expires. *)
C5_TouchOverwrites ==
    \A s \in Slots :
        ( /\ store = "part_000"
          /\ Done(s, "touch")
          /\ ops[s].session.expires.type = "Date"
          /\ HasRow(ops[s].before, ops[s].sessionID) )
        => \E r \in table :
              /\ r.sessionID = ops[s].sessionID
              /\ r.data = JSONStringify(ops[s].session)
              /\ r.expires = ops[s].session.expires.t

(* C6: touch is never an insert.  When touch(id, payload) has completed on
   an id that had no row, it has done so with no error and the table is as it
   was. *)
C6_TouchNeverInserts ==
    \A s \in Slots :
        (Done(s, "touch") /\ ~HasRow(table, ops[s].sessionID)
                          /\ ~HasRow(ops[s].before, ops[s].sessionID))
        => /\ ops[s].error = NoError
           /\ table = ops[s].before

(* The payload a stored row was serialized from is what get hands over:
   parsed, with cookie.expires a Date again. *)
Delivers(d, r) ==
    /\ d.kind = "session"
    /\ JSONStringify(d.session) = r.data

(* C7: expiry filter.  With now the time the invocation read and the table
   as its statement found it: get(id) delivers the row of id if its
   expires >= now (equality included) and nothing if it is older or there is
   no such row; all() delivers and length() counts exactly the rows with
   expires >= now; expired() delivers and expiredLength() counts exactly the
   rows with expires < now; none of them reports an error. *)
C7_ExpiryFilter ==
    \A s \in Slots :
        LET o == ops[s]
            live == {r \in o.before : r.expires >= o.now}
            dead == {r \in o.before : r.expires < o.now}
        IN /\ Done(s, "get") =>
                /\ o.error = NoError
                /\ \A r \in live : r.sessionID = o.sessionID => Delivers(o.data, r)
                /\ (~\E r \in live : r.sessionID = o.sessionID) => o.data = NoData
           /\ Done(s, "all") =>
                o.error = NoError /\ (live # {} => o.data = RowsData(live))
                                  /\ o.data.rows \cap dead = {}
           /\ Done(s, "length") =>
                o.error = NoError /\ (live # {} => o.data = CountData(Cardinality(live)))
                                  /\ o.data.count <= Cardinality(live)
           /\ Done(s, "expired") =>
                o.error = NoError /\ (dead # {} => o.data = RowsData(dead))
                                  /\ o.data.rows \cap live = {}
           /\ Done(s, "expiredLength") =>
                o.error = NoError /\ (dead # {} => o.data = CountData(Cardinality(dead)))
                                  /\ o.data.count <= Cardinality(dead)

(* The same of the documented class alone. *)
ExpiryFilterPart000 == store = "part_000" => C7_ExpiryFilter

(* C8: destroy(id) removes exactly the row of id, leaves every other row as
   it was, and completes with no error whether or not there was such a row. *)
C8_DestroyRemovesOneRow ==
    \A s \in Slots :
        Done(s, "destroy") =>
            /\ ops[s].error = NoError
            /\ ops[s].data = NoData
            /\ table = {r \in ops[s].before : r.sessionID # ops[s].sessionID}

C8_Witness ==
    \E s \in Slots :
        /\ Done(s, "destroy")
        /\ HasRow(ops[s].before, ops[s].sessionID)
        /\ \E r \in table : r.sessionID # ops[s].sessionID

(* C9: destroyUser(u) removes every row whose user is u, expired or not,
   leaves every other row as it was, and completes with no error whether or
   not a row matched. *)
C9_DestroyUserRemovesUsersRows ==
    \A s \in Slots :
        Done(s, "destroyUser") =>
            /\ ops[s].error = NoError
            /\ ops[s].data = NoData
            /\ table = {r \in ops[s].before : r.user # ops[s].user}

C9_Witness ==
    \E s \in Slots :
        /\ Done(s, "destroyUser")
        /\ \E r \in ops[s].before : r.user = ops[s].user /\ r.expires < ops[s].now
        /\ \E r \in ops[s].before : r.user # ops[s].user
        /\ table # {}

(* C10: clear removes every row, and length() and expiredLength() on the
   emptied table deliver 0, all with no error. *)
C10_ClearThenLengthIsZero ==
    \A s \in Slots :
        /\ Done(s, "clear") => ops[s].error = NoError /\ table = {}
        /\ (Done(s, "length") \/ Done(s, "expiredLength")) /\ ops[s].before = {}
              => ops[s].error = NoError /\ ops[s].data = CountData(0)

(* C11: expiredClear(), with now the time it read, removes exactly the rows
   with expires < now and completes with no error: every row with
   expires >= now is left as it was (so length() counts the same before and
   after) and no row with expires < now remains (so expiredLength() at that
   time counts 0). *)
C11_ExpiredClearRemovesExpiredOnly ==
    \A s \in Slots :
        Done(s, "expiredClear") =>
            LET o == ops[s]
            IN /\ o.error = NoError
               /\ o.data = NoData
               /\ table = {r \in o.before : r.expires >= o.now}
               /\ CountUnexpired(table, o.now).len = CountUnexpired(o.before, o.now).len
               /\ CountExpired(table, o.now).len = 0

C11_Witness ==
    \E s \in Slots :
        /\ Done(s, "expiredClear")
        /\ \E r \in ops[s].before : r.expires < ops[s].now
        /\ \E r \in ops[s].before : r.expires = ops[s].now
        /\ table # {} /\ table # ops[s].before

(* C12: createTable is idempotent: a createTable() on a table that exists
   (a second one after a successful first) completes with no error and leaves
   the table and every row in it as they were; on a table that does not exist
   it creates it empty. *)
C12_CreateTableIdempotent ==
    \A s \in Slots :
        Done(s, "createTable") =>
            /\ ops[s].error = NoError
            /\ ops[s].data = NoData
            /\ exists
            /\ table = ops[s].before

C12_Witness ==
    \E s \in Slots :
        /\ Done(s, "createTable")
        /\ ops[s].existed
        /\ ops[s].before # {}

(* C13: when the database reports a failure for an operation's query, the
   query-completion handler hands exactly that error and no data to
   finalCallback, and when the continuation has received an error the
   connection the operation opened is closed. *)
C13_QueryErrorRouted ==
    store = "part_000" =>
        \A s \in Slots :
            /\ (ops[s].phase = "answered" /\ ops[s].answer.error # NoError)
                  => Handler(store, ops[s]) = Cb(ops[s].answer.error, NoData)
            /\ (ops[s].phase = "done" /\ ops[s].error # NoError)
                  => ops[s].data = NoData /\ ~IsOpen(conns[s])

C13_Witness ==
    \E s \in Slots :
        /\ ops[s].op = "set"
        /\ ops[s].phase = "done"
        /\ ops[s].error = "QueryError"
        /\ conns[s] = "destroyed"

(* C14: after construction no invocation raises an exception, neither in the
   caller nor inside the query-completion handler, whatever the arguments and
   whatever the database holds. *)
C14_NoException ==
    \A s \in Slots : ops[s].phase \notin {"thrown", "crashed"}

(* The part of C14 about the query-completion handler alone. *)
NoExceptionInHandler ==
    \A s \in Slots : ops[s].phase # "crashed"

(* C15: when the connection attempt of an operation fails, its query fails
   with it and its continuation is invoked with a non-absent error and no
   data, without an exception; a get never completes with (no error, absent
   result) on a connection that failed.  (Stubs and calls that threw opened
   no connection.) *)
C15_ConnectFailureReported ==
    \A s \in Slots :
        (/\ ops[s].op # "idle"
         /\ ~IsStub(store, ops[s].op)
         /\ ops[s].phase # "thrown"
         /\ conns[s] = "ended") =>
            /\ ops[s].phase = "done"
            /\ ops[s].error = "ConnectionError"
            /\ ops[s].data = NoData

C15_Witness ==
    \E s \in Slots :
        /\ ops[s].op = "get"
        /\ conns[s] = "ended"
        /\ ops[s].phase = "done"
        /\ ops[s].error # NoError

(* An environment variable is set when it has a value other than the empty
   string. *)
EnvSet(f) == f \in DatabaseFields /\ env[EnvVarOf[f]] \notin {JsUndefined, Str("")}

(* The value that counts for a field: the environment variable when it is
   set, otherwise the option when the caller supplied one, otherwise
   nothing. *)
Supplied(f) == IF EnvSet(f) THEN env[EnvVarOf[f]] ELSE configOptions[f]

(* C16: precedence.  Once the constructor has run, every field resolved to
   the environment variable when that is set (the port to its integer),
   otherwise to the caller's option when supplied, otherwise to the
   default. *)
C16_Precedence ==
    settings.status # "unbuilt" =>
        \A f \in Fields :
            LET expected ==
                    IF Supplied(f) = JsUndefined THEN Defaults[f]
                    ELSE IF f = "port" /\ EnvSet(f)
                    THEN ParseInt(Supplied(f))
                    ELSE Supplied(f)
            IN IF f = "port" /\ settings.status = "built"
               THEN settings.values[f] = ParseInt(expected)
               ELSE settings.values[f] = expected

(* C17: fail-fast validation.  Once the constructor has run: if the caller
   supplied, for a field that has to be a string, an option that is not a
   string (and no environment variable takes its place), the constructor
   threw; and it opened no connection. *)
C17_FailFastValidation ==
    settings.status # "unbuilt" =>
        /\ \A f \in Fields \ {"port"} :
              (/\ ~EnvSet(f)
               /\ configOptions[f] # JsUndefined
               /\ TypeOf(configOptions[f]) # "string")
                  => settings.status = "threw"
        /\ connection = NoConnection
        /\ \A s \in Slots : conns[s] = "none"

(* C18: port handling.  Once the constructor has run: a port value (the
   environment variable when set, else the option) that parseInt turns into
   an integer made the construction succeed; a port value it does not made
   the constructor throw; and the port of a constructed store is an
   integer. *)
C18_PortHandling ==
    settings.status # "unbuilt" =>
        LET port == Supplied("port")
        IN /\ (port # JsUndefined /\ ParseInt(port).t = "number")
                  => settings.status = "built"
           /\ (port # JsUndefined /\ ParseInt(port).t # "number")
                  => settings.status = "threw"
           /\ settings.status = "built" => IsInteger(settings.values["port"])

(* C19: an operation invoked without a continuation raises no exception, and
   once it has completed its connection is closed and its effect on the
   table is applied (clear has emptied it, destroy has removed the row). *)
C19_NoContinuationIsSafe ==
    \A s \in Slots :
        (ops[s].op # "idle" /\ ~ops[s].callback) =>
            /\ ops[s].session.expires # NoCookie => ops[s].phase # "thrown"
            /\ ops[s].phase = "done" =>
                /\ ~IsOpen(conns[s])
                /\ (ops[s].op = "clear" /\ ops[s].error = NoError) => table = {}
                /\ (ops[s].op = "destroy" /\ ops[s].error = NoError)
                       => ~HasRow(table, ops[s].sessionID)

(* The same of the documented class alone. *)
NoContinuationIsSafePart000 == store = "part_000" => C19_NoContinuationIsSafe

(* C20: connection ownership under overlap.  The completion of one operation
   never destroys the connection of another operation that is still in
   flight: no operation that waits for its connection, its answer or its
   query callback finds its own connection destroyed (stated for runs in
   which no connect has failed). *)
C20_ConnectionOwnership ==
    (store = "part_000" /\ \A z \in Slots : conns[z] # "ended") =>
        \A s \in Slots :
            ops[s].phase \in {"connecting", "sent", "answered"}
                => conns[s] # "destroyed"

(* C21: scoped acquire and release for operations issued one at a time.  An
   invocation that waits to connect holds a connection just created, one
   whose query is out or answered holds an authenticated one, and when its
   continuation runs its connection is closed and no connection at all is
   open; at no moment is more than one connection open. *)
C21_ScopedAcquireRelease ==
    store = "part_000" =>
        /\ Cardinality({s \in Slots : IsOpen(conns[s])}) <= 1
        /\ \A s \in Slots :
            /\ ops[s].phase = "connecting" => conns[s] = "created"
            /\ ops[s].phase \in {"sent", "answered"} => conns[s] = "authenticated"
            /\ ops[s].phase = "done" =>
                /\ conns[s] \in {"destroyed", "ended"}
                /\ \A z \in Slots : ~IsOpen(conns[z])

C21_Witness ==
    \E s \in Slots :
        /\ store = "part_000"
        /\ ops[s].op = "destroy"
        /\ ops[s].phase = "done"
        /\ ops[s].error = NoError
        /\ conns[s] = "destroyed"

(* C22: close is total and idempotent.  A call of closeDatabaseConnection
   between operations never raises an exception, whether the last connection
   is already closed or none was ever opened. *)
C22_CloseIsTotal ==
    \A s \in Slots :
        ops[s].op = "closeDatabaseConnection" =>
            ops[s].phase = "done" /\ ops[s].error = NoError

(* The idempotent part of C22: a close between operations, when a connection
   was opened before, changes no connection (the last one is closed already),
   and a destroyed connection stays destroyed until its slot is used anew. *)
CloseChangesNothing ==
    [][(/\ \A s \in Slots : ops[s].op = "idle"
        /\ \E s \in Slots : ops'[s].op = "closeDatabaseConnection")
           => conns' = conns]_vars

(* Two invocations of set on the same session ID are in the store together,
   and the database has executed both statements without a failure of its
   own, a's on a table with no row for the ID and b's next after it. *)
SetsRace(a, b) ==
    /\ a # b
    /\ ops[a].op = "set" /\ ops[b].op = "set"
    /\ ops[a].sessionID = ops[b].sessionID
    /\ \A z \in {a, b} :
        \/ ops[z].phase = "answered" /\ ops[z].answer.error = NoError
        \/ ops[z].phase = "done" /\ ops[z].error = NoError
    /\ ~HasRow(ops[a].before, ops[a].sessionID)
    /\ ops[b].before = ops[a].before \cup {StoredRow(ops[a].sessionID, ops[a].session)}
    /\ \A z \in Slots : conns[z] # "ended"

(* The table side of C23: never two rows with one session ID, and after two
   racing sets exactly one row for the ID, which is the whole row of one of
   them. *)
SetRaceLeavesOneWholeRow ==
    /\ \A r1, r2 \in table : r1.sessionID = r2.sessionID => r1 = r2
    /\ store = "part_000" =>
        \A a, b \in Slots :
            SetsRace(a, b) =>
                \E r \in table :
                    /\ r \in {StoredRow(ops[a].sessionID, ops[a].session), StoredRow(ops[b].sessionID, ops[b].session)}
                    /\ \A q \in table : q.sessionID = r.sessionID => q = r

SetRace_Witness ==
    \E a, b \in Slots :
        /\ store = "part_000" /\ SetsRace(a, b)
        /\ ops[a].phase = "done" /\ ops[b].phase = "done"
        /\ ops[a].session # ops[b].session

(* C23: concurrent writes to one session ID.  The table never holds two rows
   with one session ID; when two sets on an absent ID overlap, the table ends
   with exactly one row for it, wholly that of one of the two, and both
   continuations are invoked with no error: once the database has answered
   both, the completion of one does not take away the completion of the
   other. *)
C23_ConcurrentSets ==
    /\ SetRaceLeavesOneWholeRow
    /\ store = "part_000" =>
        \A a, b \in Slots :
            /\ (SetsRace(a, b) /\ ops[a].phase = "done" /\ ops[b].phase # "done")
                  => ENABLED Complete(b)
            /\ (SetsRace(a, b) /\ ops[b].phase = "done" /\ ops[a].phase # "done")
                  => ENABLED Complete(a)

(* The operations whose statements write to the table. *)
WritingOps == {"set", "touch", "clear", "expiredClear", "destroy", "destroyUser"}

(* C24: lazy expiry.  The table changes only in the step in which the
   database executes the statement of set, touch, clear, expiredClear, destroy
   or destroyUser: the passage of time and the statements of get, all, length,
   expired and expiredLength leave it as it is, and expired() reports every
   stored row whose expires had passed when it was called. *)
C24_LazyExpiry ==
    [][/\ table' # table =>
            \E s \in Slots :
                /\ ops[s].phase = "sent" /\ ops'[s].phase = "answered"
                /\ ops[s].op \in WritingOps
       /\ \A s \in Slots :
            (/\ ops[s].op = "expired"
             /\ ops[s].phase = "sent" /\ ops'[s].phase = "answered"
             /\ ops'[s].answer.error = NoError)
                => /\ table' = table
                   /\ \A r \in table :
                        r.expires < ops[s].now => r \in ops'[s].answer.rows]_vars

(* A get has found the row of its ID expired and delivered nothing, time has
   passed since, and the row is still stored. *)
C24_Witness ==
    \E s \in Slots :
        /\ store = "part_000" /\ ops[s].op = "get" /\ ops[s].phase = "done"
        /\ ops[s].error = NoError /\ ops[s].data = NoData
        /\ clock > ops[s].now
        /\ \E r \in table : r.sessionID = ops[s].sessionID /\ r.expires < ops[s].now

(* C25: the configured names are the only names used.  With any valid
   tableName and columnNames, a get whose SELECT returns the row of its ID
   hands that row's payload to the continuation, as every operation does its
   result: no query callback throws. *)
C25_ConfiguredNames ==
    \A s \in Slots :
        /\ ops[s].phase # "crashed"
        /\ (ops[s].op = "get" /\ ops[s].phase = "done" /\ ops[s].error = NoError)
              => \A r \in ops[s].before :
                    (r.sessionID = ops[s].sessionID /\ r.expires >= ops[s].now)
                        => ops[s].data = SessionData(JSONParse(r.data))

(* C26: a configuration error names the field that failed validation and the
   type of the value that was rejected.  When the constructor has thrown, the
   field of its message is one whose resolved value has the wrong type, and
   the type the message reports is the typeof of that value. *)
C26_ErrorNamesFieldAndType ==
    settings.status = "threw" =>
        LET rejected == Resolved(env, configOptions)[settings.field]
        IN /\ settings.field \in Fields
           /\ TypeOf(rejected) # (IF settings.field = "port" THEN "number" ELSE "string")
           /\ settings.received = TypeOf(rejected)

(* What the four expiry queries deliver, stated on the table t and the time
   now of one query: all() the rows expired() does not return, expired() the
   rows all() does not return, and the two counts the sizes of the two
   parts. *)
PartitionAnswer(s) ==
    LET o == ops[s]
        late == {r \in o.before : r.expires < o.now}
    IN /\ Done(s, "all") =>
            o.error = NoError /\ o.data = RowsData(o.before \ late)
       /\ Done(s, "expired") =>
            o.error = NoError /\ o.data = RowsData(late)
       /\ Done(s, "length") =>
            /\ o.error = NoError
            /\ o.data = CountData(Cardinality(o.before) - Cardinality(late))
       /\ Done(s, "expiredLength") =>
            o.error = NoError /\ o.data = CountData(Cardinality(late))

(* C27: expiry partition.  At one query time and on one table state every
   stored row is returned by exactly one of all() and expired(), and the
   counts of length() and expiredLength() add up to the number of rows. *)
C27_ExpiryPartition == \A s \in Slots : PartitionAnswer(s)

(* The same on the documented class alone. *)
ExpiryPartitionPart000 ==
    store = "part_000" => \A s \in Slots : PartitionAnswer(s)

ExpiryPartition_Witness ==
    \E s \in Slots :
        /\ store = "part_000" /\ Done(s, "all")
        /\ \E r \in ops[s].before : r.expires < ops[s].now
        /\ \E r \in ops[s].before : r.expires = ops[s].now

(* C28: user reference consistency.  In every reachable state the user
   column of a stored row holds the user reference of the payload stored in
   that row (none when the payload has none), so that destroyUser(u) removes
   every session whose stored payload belongs to u. *)
C28_UserReferenceConsistent ==
    \A r \in table :
        r.user = (IF r.data.user = Undefined THEN "" ELSE r.data.user)

(* C29: expiry is final for reads.  A row whose expires has passed (a get of
   its ID delivers nothing) is by no step turned into a row that a get
   delivers: after any step the table holds for that ID no row, or a row
   that is still expired.  Only a set after the row's removal brings the ID
   back. *)
C29_ExpiryIsFinal ==
    [][\A r \in table :
          r.expires < clock =>
              \A q \in table' :
                  q.sessionID = r.sessionID => q.expires < clock']_vars

====
